---- MODULE Spec2Model ----
(***************************************************************************)
(* Model of tail-rust (src/src/main.rs): main's loop over the sources,     *)
(* tail's dispatch, the backward block scan of tail_file followed by       *)
(* copy_to_end, the rolling line window of tail_reader and the forward     *)
(* skip of tail_reader_top.                                                *)
(*                                                                         *)
(* A source is a record [name, data, fail_at]: its name ("-" is standard   *)
(* input), its bytes, and the ordinal of the fallible I/O operation that   *)
(* fails while it is processed (0: none).  Bytes are integers; NL is the   *)
(* terminator and every other byte of a source is 96 + its position, so    *)
(* that two different regions of a source never look alike.                *)
(*                                                                         *)
(* Reads of a regular file return the number of bytes asked for when that  *)
(* many remain.  A failed read_line consumes the line it failed on (the    *)
(* way a line that is not valid UTF-8 does), and later reads succeed.      *)
(* A failed write writes nothing.                                          *)
(***************************************************************************)
EXTENDS Integers, Sequences, FiniteSets, TLC

\* Block capacity.  The program uses 1024 (main.rs:19); the model scales it
\* down so that sources of one, two and three blocks are all explored.
BUFFER_SIZE == 2

\* Bounds of the explored inputs.
MaxFileLen == 5
MaxN == 3
MaxFailAt == 6
MaxFiles == 2
MainFileLen == 1
MainFailAt == 2
MainN == 1

NL == 10

VARIABLES
    item_count,      \* options.item_count
    direction,       \* options.direction
    output_headers,  \* options.output_headers
    files,           \* the sources of the run, in input order
    idx,             \* position of main's iterator over files
    pc,              \* position of the program
    ops,             \* fallible I/O operations made by the current call of tail
    faulted,         \* an I/O operation of the current call of tail has failed
    cursor,          \* offset of the current source's file or reader
    bytes_left, bytes_read, newline_count, buffer,   \* locals of tail_file
    scanned,         \* offsets read by the backward scan, in the order read
    lines,           \* the RingBuf of tail_reader
    out,             \* bytes written to standard output
    mark,            \* length of out when the current call of tail began
    result,          \* what the current call of tail returned
    started,         \* names of the sources tail was called on
    headers,         \* header lines printed
    reports,         \* names of the sources reported on standard error
    failures,        \* names of the sources an I/O operation failed on
    exit_status      \* exit status of the process

vars == <<item_count, direction, output_headers, files, idx, pc, ops, faulted,
          cursor, bytes_left, bytes_read, newline_count, buffer, scanned,
          lines, out, mark, result, started, headers, reports, failures,
          exit_status>>

opts == <<item_count, direction, output_headers, files>>
main_vars == <<idx, started, headers, reports, failures, exit_status, mark>>
file_vars == <<bytes_left, bytes_read, newline_count, buffer, scanned>>

Min(a, b) == IF a < b THEN a ELSE b
Max(a, b) == IF a > b THEN a ELSE b

\* ---------------------------------------------------------------------------
\* Sources
\* ---------------------------------------------------------------------------

FileOf(len, nls) == [i \in 1..len |-> IF i \in nls THEN NL ELSE 96 + i]

Contents(maxlen) ==
    UNION { { FileOf(len, nls) : nls \in SUBSET (1..len) } : len \in 0..maxlen }

FileName(i) == IF i = 1 THEN "f1" ELSE IF i = 2 THEN "f2" ELSE "f3"

Data == files[idx].data
FailAt == files[idx].fail_at
Name == files[idx].name

\* The k-th fallible operation counted from now is the one that fails.
Fails(k) == FailAt = ops + k

\* Bytes written by the current call of tail.
Written == SubSeq(out, mark + 1, Len(out))

\* ---------------------------------------------------------------------------
\* main and tail
\* ---------------------------------------------------------------------------

\* tail (main.rs:132-156), called from main's loop (main.rs:82-83): print the
\* header, then open the source and enter the function chosen by direction.
tail ==
    /\ pc = "main"
    /\ idx <= Len(files)
    /\ started' = Append(started, Name)
    /\ headers' = IF output_headers THEN Append(headers, Name) ELSE headers
    /\ mark' = Len(out)
    /\ cursor' = 0
    /\ lines' = <<>>
    /\ bytes_left' = 0 /\ bytes_read' = 0 /\ newline_count' = 0
    /\ buffer' = <<>> /\ scanned' = <<>>
    /\ IF Name = "-"
       THEN /\ pc' = IF direction = "FromBottom" THEN "reader" ELSE "skip"
            /\ ops' = 0 /\ faulted' = FALSE /\ result' = "none"
       ELSE IF FailAt = 1
       THEN /\ pc' = "ret" /\ ops' = 1 /\ faulted' = TRUE /\ result' = "Err"
       ELSE /\ pc' = IF direction = "FromBottom" THEN "file" ELSE "skip"
            /\ ops' = 1 /\ faulted' = FALSE /\ result' = "none"
    /\ UNCHANGED <<opts, idx, out, reports, failures, exit_status>>

\* main.rs:83-88: report the error of a failed source, then go on.
main_report ==
    /\ pc = "ret"
    /\ reports' = IF result = "Err" THEN Append(reports, Name) ELSE reports
    /\ failures' = IF faulted THEN Append(failures, Name) ELSE failures
    /\ idx' = idx + 1
    /\ pc' = "main"
    /\ UNCHANGED <<opts, ops, faulted, cursor, file_vars, lines, out, mark,
                   result, started, headers, exit_status>>

\* main.rs:89-90: the loop is over and main returns.
main_exit ==
    /\ pc = "main"
    /\ idx > Len(files)
    /\ pc' = "exit"
    /\ UNCHANGED <<opts, main_vars, ops, faulted, cursor, file_vars, lines,
                   out, result>>

\* ---------------------------------------------------------------------------
\* tail_file and copy_to_end
\* ---------------------------------------------------------------------------

\* A call of tail returns res after k more fallible operations.
Return(res, k) ==
    /\ pc' = "ret"
    /\ result' = res
    /\ ops' = ops + k
    /\ faulted' = (FailAt # 0 /\ FailAt <= ops + k)

Continue(to, k) ==
    /\ pc' = to
    /\ result' = result
    /\ ops' = ops + k
    /\ faulted' = (FailAt # 0 /\ FailAt <= ops + k)

\* main.rs:161-170: stat the file and seek to its end.
tail_file_enter ==
    /\ pc = "file"
    /\ IF Fails(1)
       THEN Return("Err", 1) /\ UNCHANGED <<cursor, file_vars>>
       ELSE IF Fails(2)
       THEN /\ Return("Err", 2)
            /\ bytes_left' = Len(Data)
            /\ UNCHANGED <<cursor, bytes_read, newline_count, buffer, scanned>>
       ELSE /\ Continue("scan", 2)
            /\ bytes_left' = Len(Data)
            /\ bytes_read' = 0
            /\ newline_count' = 0
            /\ cursor' = Len(Data)
            /\ UNCHANGED <<buffer, scanned>>
    /\ UNCHANGED <<opts, main_vars, lines, out>>

SeekCurMissing(pos, bytes_to_read, last_read) == pos - bytes_to_read

\* main.rs:179: the target of the relative seek.
SeekCur(pos, bytes_to_read, last_read) == pos - (bytes_to_read + last_read)

RECURSIVE RevScan(_, _, _, _)
\* main.rs:184-193: scan buf[1..i] in reverse, counting terminators from cnt,
\* and stop at the terminator that takes the count past n.
RevScan(buf, i, cnt, n) ==
    IF i = 0 THEN [count |-> cnt, found |-> FALSE, at |-> 0]
    ELSE IF buf[i] = NL
         THEN IF cnt + 1 > n
              THEN [count |-> cnt + 1, found |-> TRUE, at |-> i]
              ELSE RevScan(buf, i - 1, cnt + 1, n)
         ELSE RevScan(buf, i - 1, cnt, n)

\* main.rs:174-194: one iteration of the backward scan.
tail_file_scan ==
    /\ pc = "scan"
    /\ bytes_left # 0 /\ newline_count <= item_count
    /\ LET bytes_to_read == Min(bytes_left, BUFFER_SIZE)
           target == SeekCur(cursor, bytes_to_read, bytes_read)
           got == Min(bytes_to_read, Len(Data) - target)
           block == SubSeq(Data, target + 1, target + got)
           hit == RevScan(block, got, newline_count, item_count)
       IN IF Fails(1) \/ target < 0
          THEN Return("Err", 1) /\ UNCHANGED <<cursor, file_vars, out>>
          ELSE IF Fails(2) \/ got <= 0
          THEN /\ Return("Err", 2)
               /\ cursor' = target
               /\ UNCHANGED <<file_vars, out>>
          ELSE /\ cursor' = target + got
               /\ bytes_read' = got
               /\ bytes_left' = bytes_left - got
               /\ buffer' = block
               /\ scanned' = scanned \o [k \in 1..got |-> target + k - 1]
               /\ newline_count' = hit.count
               /\ IF ~hit.found
                  THEN Continue("scan", 2) /\ out' = out
                  ELSE IF Fails(3)
                  THEN Return("Err", 3) /\ out' = out
                  ELSE /\ Continue("scan", 3)
                       /\ out' = out \o SubSeq(block, hit.at + 1, got)
    /\ UNCHANGED <<opts, main_vars, lines>>

\* main.rs:174 and 196-201: the loop is over; rewind when nothing is left
\* before the scanned region, then hand over to copy_to_end.
tail_file_rewind ==
    /\ pc = "scan"
    /\ ~(bytes_left # 0 /\ newline_count <= item_count)
    /\ IF bytes_left = 0
       THEN IF Fails(1)
            THEN Return("Err", 1) /\ cursor' = cursor
            ELSE Continue("copy", 1) /\ cursor' = 0
       ELSE Continue("copy", 0) /\ cursor' = cursor
    /\ UNCHANGED <<opts, main_vars, file_vars, lines, out>>

\* main.rs:240-248: one iteration of copy_to_end's loop.
copy_to_end ==
    /\ pc = "copy"
    /\ LET got == Min(BUFFER_SIZE, Len(Data) - cursor)
       IN IF Fails(1)
          THEN Return("Err", 1) /\ UNCHANGED <<cursor, out>>
          ELSE IF got = 0
          THEN Return("Ok", 1) /\ UNCHANGED <<cursor, out>>
          ELSE IF Fails(2)
          THEN Return("Err", 2) /\ cursor' = cursor + got /\ out' = out
          ELSE /\ Continue("copy", 2)
               /\ cursor' = cursor + got
               /\ out' = out \o SubSeq(Data, cursor + 1, cursor + got)
    /\ UNCHANGED <<opts, main_vars, file_vars, lines>>

\* ---------------------------------------------------------------------------
\* Line readers: tail_reader and tail_reader_top
\* ---------------------------------------------------------------------------

\* BufferedReader::read_line: a line ends after the next terminator, or at the
\* end of the source when there is none.
LineEnd(d, cur) ==
    IF \E i \in (cur + 1)..Len(d) : d[i] = NL
    THEN CHOOSE i \in (cur + 1)..Len(d) :
            d[i] = NL /\ \A j \in (cur + 1)..(i - 1) : d[j] # NL
    ELSE Len(d)

RECURSIVE Flatten(_)
Flatten(ls) == IF ls = <<>> THEN <<>> ELSE Head(ls) \o Flatten(Tail(ls))

\* RingBuf::pop_front: nothing happens on an empty buffer.
pop_front(ls) == IF ls = <<>> THEN ls ELSE Tail(ls)

\* main.rs:211-214: make room when the buffer holds item_count lines, then
\* append the line.
Push(ls, line, n) ==
    Append(IF Len(ls) = n THEN pop_front(ls) ELSE ls, line)

\* main.rs:209-215: one iteration of tail_reader's loop over reader.lines().
tail_reader_line ==
    /\ pc = "reader"
    /\ IF Fails(1)
       THEN /\ Return("Err", 1)
            /\ cursor' = LineEnd(Data, cursor)
            /\ lines' = lines
       ELSE IF cursor = Len(Data)
       THEN Continue("flush", 1) /\ UNCHANGED <<cursor, lines>>
       ELSE /\ Continue("reader", 1)
            /\ cursor' = LineEnd(Data, cursor)
            /\ lines' = Push(lines, SubSeq(Data, cursor + 1, LineEnd(Data, cursor)),
                             item_count)
    /\ UNCHANGED <<opts, main_vars, file_vars, out>>

\* main.rs:217-221: write the retained lines in order; the first failed write
\* ends the call.
tail_reader_flush ==
    /\ pc = "flush"
    /\ LET f == FailAt - ops
       IN IF f \in 1..Len(lines)
          THEN /\ Return("Err", f)
               /\ out' = out \o Flatten(SubSeq(lines, 1, f - 1))
          ELSE /\ Return("Ok", Len(lines))
               /\ out' = out \o Flatten(lines)
    /\ UNCHANGED <<opts, main_vars, file_vars, cursor, lines>>

skip_one_more(n) == n + 1

\* main.rs:228: the number of items the Skip adaptor discards.
skip_count(n) == n

RECURSIVE SkipItems(_, _, _, _, _)
\* Iterator::skip over reader.lines(): take and drop k items, whatever they
\* are (a line or the error of a failed read); o fallible operations have been
\* made so far and the f-th one fails.  Stops when the lines run out.
SkipItems(d, cur, k, o, f) ==
    IF k = 0 THEN [cursor |-> cur, ops |-> o, eof |-> FALSE]
    ELSE IF f = o + 1 THEN SkipItems(d, LineEnd(d, cur), k - 1, o + 1, f)
    ELSE IF cur = Len(d) THEN [cursor |-> cur, ops |-> o + 1, eof |-> TRUE]
    ELSE SkipItems(d, LineEnd(d, cur), k - 1, o + 1, f)

\* main.rs:228: the first call of next() on reader.lines().skip(n).
tail_reader_top_skip ==
    /\ pc = "skip"
    /\ LET s == SkipItems(Data, cursor, skip_count(item_count), ops, FailAt)
       IN /\ cursor' = s.cursor
          /\ IF s.eof
             THEN Return("Ok", s.ops - ops)
             ELSE Continue("top", s.ops - ops)
    /\ UNCHANGED <<opts, main_vars, file_vars, lines, out>>

\* main.rs:228-233: one line after the skipped ones.
tail_reader_top_line ==
    /\ pc = "top"
    /\ IF Fails(1)
       THEN /\ Return("Err", 1)
            /\ cursor' = LineEnd(Data, cursor)
            /\ out' = out
       ELSE IF cursor = Len(Data)
       THEN Return("Ok", 1) /\ UNCHANGED <<cursor, out>>
       ELSE /\ cursor' = LineEnd(Data, cursor)
            /\ IF Fails(2)
               THEN Return("Err", 2) /\ out' = out
               ELSE /\ Continue("top", 2)
                    /\ out' = out \o SubSeq(Data, cursor + 1, LineEnd(Data, cursor))
    /\ UNCHANGED <<opts, main_vars, file_vars, lines>>

\* ---------------------------------------------------------------------------
\* Specifications
\* ---------------------------------------------------------------------------

Sources(names, maxlen, maxfail) ==
    { [name |-> nm, data |-> d, fail_at |-> f] :
        nm \in names, d \in Contents(maxlen), f \in 0..maxfail }

InitRun(fs, dirs, counts) ==
    /\ files \in fs
    /\ direction \in dirs
    /\ item_count \in counts
    /\ output_headers \in BOOLEAN
    /\ idx = 1
    /\ pc = "main"
    /\ ops = 0 /\ faulted = FALSE /\ cursor = 0
    /\ bytes_left = 0 /\ bytes_read = 0 /\ newline_count = 0
    /\ buffer = <<>> /\ scanned = <<>> /\ lines = <<>>
    /\ out = <<>> /\ mark = 0 /\ result = "none"
    /\ started = <<>> /\ headers = <<>> /\ reports = <<>> /\ failures = <<>>
    /\ exit_status = 0

\* One seekable source, counted from the bottom.
InitFile ==
    InitRun({ <<s>> : s \in Sources({"f1"}, MaxFileLen, MaxFailAt) },
            {"FromBottom"}, 0..MaxN)

NextFile ==
    \/ tail
    \/ tail_file_enter
    \/ tail_file_scan
    \/ tail_file_rewind
    \/ copy_to_end
    \/ main_report
    \/ main_exit

SpecFile == InitFile /\ [][NextFile]_vars

\* One non-seekable source, counted from the bottom.
InitReader ==
    InitRun({ <<s>> : s \in Sources({"-"}, MaxFileLen, MaxFailAt) },
            {"FromBottom"}, 0..MaxN)

NextReader ==
    \/ tail
    \/ tail_reader_line
    \/ tail_reader_flush
    \/ main_report
    \/ main_exit

SpecReader == InitReader /\ [][NextReader]_vars

\* One source, seekable or not, counted from the top.
InitTop ==
    InitRun({ <<s>> : s \in Sources({"-", "f1"}, MaxFileLen, MaxFailAt) },
            {"FromTop"}, 0..MaxN)

NextTop ==
    \/ tail
    \/ tail_reader_top_skip
    \/ tail_reader_top_line
    \/ main_report
    \/ main_exit

SpecTop == InitTop /\ [][NextTop]_vars

\* A run over one to MaxFiles sources of at most MainFileLen bytes each.
Batches ==
    UNION { { fs \in [1..k -> Sources({"-", "f1", "f2", "f3"}, MainFileLen, MainFailAt)] :
                \A i \in 1..k : fs[i].name \in {"-", FileName(i)} } :
            k \in 1..MaxFiles }

Init == InitRun(Batches, {"FromBottom", "FromTop"}, 0..MainN)

Next ==
    \/ tail
    \/ tail_file_enter
    \/ tail_file_scan
    \/ tail_file_rewind
    \/ copy_to_end
    \/ tail_reader_line
    \/ tail_reader_flush
    \/ tail_reader_top_skip
    \/ tail_reader_top_line
    \/ main_report
    \/ main_exit

Spec == Init /\ [][Next]_vars

\* ---------------------------------------------------------------------------
\* Reference: the forward split of a source into lines
\* ---------------------------------------------------------------------------

Newlines(d) == { i \in 1..Len(d) : d[i] = NL }

\* Offsets (from 1) at which a line begins.
LineStarts(d) ==
    IF Len(d) = 0 THEN {}
    ELSE {1} \cup { i + 1 : i \in { j \in Newlines(d) : j < Len(d) } }

NumLines(d) == Cardinality(LineStarts(d))

\* The lines of d from the k-th on (k from 1), as bytes.
FromLine(d, k) ==
    IF k > NumLines(d) THEN <<>>
    ELSE LET st == CHOOSE s \in LineStarts(d) :
                      Cardinality({ t \in LineStarts(d) : t < s }) = k - 1
         IN SubSeq(d, st, Len(d))

LastLines(d, n) == FromLine(d, NumLines(d) - Min(n, NumLines(d)) + 1)
DropLines(d, n) == FromLine(d, n + 1)

FromBottomFile == direction = "FromBottom" /\ idx <= Len(files) /\ Name # "-"
FromBottomReader == direction = "FromBottom" /\ idx <= Len(files) /\ Name = "-"
FromTop == direction = "FromTop" /\ idx <= Len(files)

\* ---------------------------------------------------------------------------
\* Properties
\* ---------------------------------------------------------------------------

\* C1: when tail_file and copy_to_end have run to the end without an I/O
\* failure, the bytes written are exactly the last min(N, L) lines of the
\* file as a forward split gives them, and nothing else.
C1_FileTailIsLastLines ==
    (pc = "ret" /\ FromBottomFile /\ ~faulted) =>
        /\ result = "Ok"
        /\ Written = LastLines(Data, item_count)

\* C2: when tail_reader has run to the end without an I/O failure, the bytes
\* written are exactly the last min(N, L) lines in order; nothing for N = 0.
C2_ReaderTailIsLastLines ==
    (pc = "ret" /\ FromBottomReader /\ ~faulted) =>
        /\ result = "Ok"
        /\ Written = LastLines(Data, item_count)
        /\ (item_count = 0 => Written = <<>>)

C4_WindowAtMostN ==
    (FromBottomReader /\ pc \in {"reader", "flush", "ret"}) =>
        Len(lines) <= item_count

\* C5: for a file whose last byte is not a terminator and N >= 1, the
\* unterminated last line counts as a line: the output of tail_file is the
\* last min(N, L) lines with that line as the last one.
C5_UnterminatedLastLineCounts ==
    (/\ pc = "ret" /\ FromBottomFile /\ ~faulted
     /\ Len(Data) > 0 /\ Data[Len(Data)] # NL
     /\ item_count >= 1 /\ NumLines(Data) > item_count) =>
        /\ Written = LastLines(Data, item_count)
        /\ NumLines(Written) = item_count

\* C6: every source is started once, in input order, whatever fails; every
\* source an I/O operation failed on is reported once, by name.
C6_FailureIsNotFatal ==
    /\ Len(started) <= Len(files)
    /\ \A i \in 1..Len(started) : started[i] = files[i].name
    /\ (pc = "ret" /\ faulted) => result = "Err"
    /\ pc = "exit" => (Len(started) = Len(files) /\ reports = failures)

\* C7: main ends with a non-zero status exactly when a call of tail returned
\* an error.
C7_ExitStatusReportsFailure ==
    pc = "exit" => ((exit_status # 0) <=> (reports # <<>>))

\* C8: once the terminator count is past N, tail_file does not rewind: the
\* cursor stays at the end of the block the terminator was found in, the
\* output is what follows that terminator and no byte is written twice.
\* When the count stays within N the whole source is written.
C8_RewindOnlyWhenNotFound ==
    /\ (FromBottomFile /\ pc \in {"copy", "ret"} /\ newline_count > item_count) =>
          /\ cursor >= bytes_left + bytes_read
          /\ Len(Written) <= Len(Data)
    /\ (FromBottomFile /\ pc = "ret" /\ result = "Ok") =>
          Written = IF newline_count > item_count
                    THEN LET p == CHOOSE q \in Newlines(Data) :
                                    Cardinality({ r \in Newlines(Data) : r >= q })
                                        = item_count + 1
                         IN SubSeq(Data, p + 1, Len(Data))
                    ELSE Data

\* C9: a read that fails while tail_reader_top skips the first N lines ends
\* the call with an error: the loop that writes the later lines is never
\* entered after a failure, and the call does not return Ok.
C9_SkipFailureAborts ==
    (FromTop /\ faulted) =>
        /\ pc # "top"
        /\ (pc = "ret" => result = "Err")

\* C10: at the head of the backward scan's loop the offsets read so far are
\* exactly bytes_left .. size - 1, each once; the buffer holds the block that
\* starts at bytes_left and the cursor is at that block's end; the next
\* relative seek does not go before offset 0.
C10_ScanCursor ==
    (FromBottomFile /\ pc = "scan") =>
        /\ bytes_left \in 0..Len(Data)
        /\ Len(scanned) = Len(Data) - bytes_left
        /\ { scanned[k] : k \in 1..Len(scanned) } = bytes_left..(Len(Data) - 1)
        /\ Len(scanned) <= Len(Data)
        /\ buffer = SubSeq(Data, bytes_left + 1, bytes_left + bytes_read)
        /\ cursor = bytes_left + bytes_read
        /\ cursor - (Min(bytes_left, BUFFER_SIZE) + bytes_read) >= 0

C10_Witness ==
    /\ FromBottomFile /\ pc = "scan"
    /\ Len(scanned) = 2 * BUFFER_SIZE
    /\ bytes_left > 0
    /\ newline_count <= item_count
    /\ bytes_read = BUFFER_SIZE

====
